---- MODULE Spec2Model ----
(***************************************************************************)
(* Model of app.py: the affection-game request handlers (create_room,      *)
(* join_room, chat_room) running concurrently against one Firestore        *)
(* collection "rooms", plus the pure helpers generate_room_code,           *)
(* build_gemini_prompt (chat-history section), parse_gemini_response and   *)
(* the score update.                                                       *)
(*                                                                         *)
(* Atomicity: every Firestore call (get / set / update of one document) is *)
(* one atomic step, and so is the call to the generative-text service; the *)
(* local code after a call belongs to the step of that call.               *)
(*                                                                         *)
(* Time: datetime.utcnow() reads a wall clock `now` in the step of the call*)
(* that precedes it.  Only the order and the equality of the values read   *)
(* matter, so the clock is kept at the grain of the store writes: a write  *)
(* is applied after a network round trip, so when it can be observed the   *)
(* clock has advanced past every timestamp its writer read; between two    *)
(* writes, requests that overlap read equal values.                        *)
(*                                                                         *)
(* Observation: `out` holds the response of the latest handler step, with  *)
(* the handler's locals and the store as it was before the step, until     *)
(* SendResponse puts it on the wire.                                       *)
(***************************************************************************)
EXTENDS Integers, Sequences, FiniteSets, TLC

\* ---------------------------------------------------------------- bounds
MaxReqs == 2        \* request slots, i.e. requests in flight at once
MaxStarted == 3     \* requests admitted past validation in one behaviour
MaxStored == 11     \* prompt-builder check: longest stored message list
MaxStamp == 2       \* prompt-builder check: timestamps 1..MaxStamp
MaxText == 5        \* parser check: longest model text, in pieces

\* ------------------------------------------------------- program constants
HistoryLimit == 10  \* sorted_messages[-10:]
MinScore == 0       \* max(0, ...)
MaxScore == 100     \* min(100, ...) and the win threshold

Reqs == 1..MaxReqs
Codes == {"c1", "c2"}              \* the code space of generate_room_code
Users == {"u1", "u2"}              \* session user identifiers
NickInputs == {"Ann", ""}          \* the nickname form field
Texts == {"hi", ""}                \* the message form field
Replies == {"ok"}                  \* parsed_data['response']
Deltas == {-50, 0, 50, 150}         \* parsed_data['affection_change']
BotName == "Luna"                  \* bot_name form field
NoNick == "<missing>"              \* a users entry without a nickname field

\* ------------------------------------------------------------ documents
NoUser == [present |-> FALSE, nickname |-> NoNick, score |-> 0]
NoDoc == [exists |-> FALSE, game_over |-> FALSE,
          users |-> [u \in Users |-> NoUser], messages |-> <<>>]

Msg(user, text, timestamp) == [user |-> user, text |-> text, timestamp |-> timestamp]

\* message texts, kept apart by their wording: <<wording, name, number, number>>
StartedText(nickname) == <<"Game started! _ created the room.", nickname, 0, 0>>
ScenarioText == <<"start_scenario", "", 0, 0>>
JoinedText(nickname) == <<"_ has joined the game!", nickname, 0, 0>>
UserText(t) == <<"message", t, 0, 0>>
BotText(r) == <<"response", r, 0, 0>>
WinText(nickname) == <<"GAME OVER! _ has won", nickname, 0, 0>>
SorryText(nickname) == <<"Sorry, _, I'm having trouble thinking.", nickname, 0, 0>>

VARIABLES rooms, now, sessNick, req, started, out, pb_messages, pb_history,
          pr_text, pr_parsed

vars == <<rooms, now, sessNick, req, started, out, pb_messages, pb_history,
          pr_text, pr_parsed>>

\* a request slot: the locals of the handler that is running in it
IdleReq == [kind |-> "none", pc |-> "idle", user |-> "none", code |-> "none",
            nick |-> "none", text |-> "none", snap |-> NoDoc, ts |-> 0,
            ts_end |-> 0, change |-> 0, reply |-> "none"]

\* a request takes the first free slot
Free(p) == req[p].pc = "idle" /\ \A q \in Reqs : q < p => req[q].pc # "idle"

NoRooms == [c \in Codes |-> NoDoc]

\* the response of a handler: which handler, the outcome, whether this step
\* wrote to the store, the handler's locals r and the store before the step
Response(kind, resp, wrote, r, before) ==
    [kind |-> kind, resp |-> resp, wrote |-> wrote, r |-> r, before |-> before]

NoResponse == Response("none", "none", FALSE, IdleReq, NoRooms)

\* the previous response has left
Ready == out = NoResponse

\* ------------------------------------------------------- store primitives
\* firestore.ArrayUnion: each element is appended unless already present
RECURSIVE ArrayUnion(_, _)
ArrayUnion(arr, elems) ==
    IF elems = <<>> THEN arr
    ELSE LET e == Head(elems)
             present == \E i \in 1..Len(arr) : arr[i] = e
         IN ArrayUnion(IF present THEN arr ELSE Append(arr, e), Tail(elems))

\* update({'users.<uid>': {...}}): replaces the whole entry
SetUser(doc, uid, nickname, score) ==
    [doc EXCEPT !.users[uid] = [present |-> TRUE, nickname |-> nickname, score |-> score]]

\* update({'users.<uid>.score': v}): sets one nested field, creating the
\* entry (without a nickname) when the path does not exist
SetScore(doc, uid, v) ==
    [doc EXCEPT !.users[uid] = [present |-> TRUE, nickname |-> @.nickname, score |-> v]]

\* ------------------------------------------------------------ score update
Min(a, b) == IF a < b THEN a ELSE b
Max(a, b) == IF a > b THEN a ELSE b

\* variant: the upper clamp is missing
NewScoreNoCeiling(score, affection_change) ==
    Max(MinScore, score + affection_change)

\* new_score = max(0, min(100, score + affection_change))
NewScore(score, affection_change) ==
    Max(MinScore, Min(MaxScore, score + affection_change))

Abs(x) == IF x < 0 THEN -x ELSE x

\* score_msg, one wording per sign of affection_change
ScoreText(nickname, affection_change, new_score) ==
    IF affection_change > 0
    THEN <<"_'s affection went up by _%! (Now _%)", nickname, affection_change, new_score>>
    ELSE IF affection_change < 0
    THEN <<"_'s affection went down by _%! (Now _%)", nickname, Abs(affection_change), new_score>>
    ELSE <<"_'s affection didn't change. (Still _%)", nickname, 0, new_score>>

\* variant: the win test is strict
WinsAbove(new_score) == new_score > MaxScore

\* the win branch of chat_room
Wins(new_score) == new_score >= MaxScore

\* messages_to_add of a successful turn of request r
MessagesToAdd(r) ==
    LET new_score == NewScore(r.snap.users[r.user].score, r.change)
        turn == << Msg(r.user, UserText(r.text), r.ts),
                   Msg(BotName, BotText(r.reply), r.ts_end),
                   Msg("System", ScoreText(r.nick, r.change, new_score), r.ts_end) >>
    IN IF Wins(new_score)
       THEN Append(turn, Msg("System", WinText(r.nick), r.ts_end))
       ELSE turn

\* room_ref.update(update_data) of a successful turn, applied to the stored doc
ChatUpdate(doc, r) ==
    LET new_score == NewScore(r.snap.users[r.user].score, r.change)
        scored == SetScore(doc, r.user, new_score)
        over == IF Wins(new_score) THEN [scored EXCEPT !.game_over = TRUE] ELSE scored
    IN [over EXCEPT !.messages = ArrayUnion(@, MessagesToAdd(r))]

\* the two messages of the except branch
ErrorMessages(r) ==
    << Msg(r.user, UserText(r.text), r.ts_end),
       Msg("System", SorryText(r.nick), r.ts_end) >>

ErrorUpdate(doc, r) == [doc EXCEPT !.messages = ArrayUnion(@, ErrorMessages(r))]

\* new_room_data of create_room
NewRoom(uid, nickname, ts) ==
    [exists |-> TRUE, game_over |-> FALSE,
     users |-> [u \in Users |-> IF u = uid
                                 THEN [present |-> TRUE, nickname |-> nickname, score |-> 0]
                                 ELSE NoUser],
     messages |-> << Msg("System", StartedText(nickname), ts),
                     Msg(BotName, ScenarioText, ts) >>]

\* the update of join_room
JoinUpdateDoc(doc, r) ==
    [SetUser(doc, r.user, r.nick, 0) EXCEPT
        !.messages = ArrayUnion(@, << Msg("System", JoinedText(r.nick), r.ts) >>)]

\* ----------------------------------------------------------- prompt builder
\* sorted(messages, key=timestamp): stable, ascending
RECURSIVE InsertByTimestamp(_, _)
InsertByTimestamp(sorted, m) ==
    IF sorted = <<>> THEN << m >>
    ELSE LET latest == sorted[Len(sorted)]
         IN IF latest.timestamp <= m.timestamp
            THEN Append(sorted, m)
            ELSE Append(InsertByTimestamp(SubSeq(sorted, 1, Len(sorted) - 1), m), latest)

RECURSIVE SortedMessages(_)
SortedMessages(messages) ==
    IF messages = <<>> THEN <<>>
    ELSE InsertByTimestamp(SortedMessages(SubSeq(messages, 1, Len(messages) - 1)),
                           messages[Len(messages)])

\* variant: the last ten as stored, without sorting
RecentMessagesUnsorted(messages) ==
    SubSeq(messages, Max(1, Len(messages) - HistoryLimit + 1), Len(messages))

\* sorted_messages[-10:]
RecentMessages(messages) ==
    LET sorted == SortedMessages(messages)
        n == Len(sorted)
    IN SubSeq(sorted, Max(1, n - HistoryLimit + 1), n)

\* the loop over room_data['users'] reads data['nickname'] of every entry
BuildPromptFails(doc) ==
    \E u \in Users : doc.users[u].present /\ doc.users[u].nickname = NoNick

\* ---------------------------------------------------- parse_gemini_response
\* The model text is a sequence of lexical pieces: the braces, a comma, a
\* piece "x" of other text, and whole members "key": value of a JSON object.
Braces == {"{", "}"}
Members == {"R_str", "R_null", "A_int", "A_float", "A_str", "A_bad", "A_null"}
Pieces == Braces \cup {",", "x"} \cup Members

\* a Python value: a str (its pieces), None, an int n or a float n / d
PyStr(s) == [type |-> "str", s |-> s, n |-> 0, d |-> 1]
PyNone == [type |-> "NoneType", s |-> <<>>, n |-> 0, d |-> 1]
PyIntVal(n) == [type |-> "int", s |-> <<>>, n |-> n, d |-> 1]
PyFloat(n, d) == [type |-> "float", s |-> <<>>, n |-> n, d |-> d]
Absent == [type |-> "absent", s |-> <<>>, n |-> 0, d |-> 1]

\* the key and the value a member piece stands for:
\*   "response": "hi" | "response": null | "affection_change": 50 |
\*   "affection_change": -2.7 | "affection_change": "150" |
\*   "affection_change": "abc" | "affection_change": null
MemberKey(m) == IF m \in {"R_str", "R_null"} THEN "response" ELSE "affection_change"

MemberValue(m) ==
    CASE m = "R_str" -> PyStr(<<"hi">>)
      [] m = "R_null" -> PyNone
      [] m = "A_int" -> PyIntVal(50)
      [] m = "A_float" -> PyFloat(-27, 10)
      [] m = "A_str" -> PyStr(<<"150">>)
      [] m = "A_bad" -> PyStr(<<"abc">>)
      [] m = "A_null" -> PyNone

DefaultResponse == PyStr(<<"I'm not sure what to say.">>)

\* the result of a call: a returned dict, or an exception that left the call
Returned(response, affection_change) ==
    [raised |-> FALSE, response |-> response, affection_change |-> affection_change]

NotParsed == [done |-> FALSE, result |-> Returned(Absent, 0)]

\* variant: the shortest block, from the first '{' to the first '}' after it
ReSearchLazy(text) ==
    LET starts == {i \in 1..Len(text) :
                      text[i] = "{" /\ \E j \in (i + 1)..Len(text) : text[j] = "}"}
    IN IF starts = {} THEN [found |-> FALSE, group |-> <<>>]
       ELSE LET i == CHOOSE k \in starts : \A l \in starts : k <= l
                j == CHOOSE k \in (i + 1)..Len(text) :
                        text[k] = "}" /\ \A l \in (i + 1)..(k - 1) : text[l] # "}"
            IN [found |-> TRUE, group |-> SubSeq(text, i, j)]

\* re.search(r'\{.*\}', text, re.DOTALL): the leftmost '{' that some '}'
\* follows, and from there the longest match
ReSearch(text) ==
    LET starts == {i \in 1..Len(text) :
                      text[i] = "{" /\ \E j \in (i + 1)..Len(text) : text[j] = "}"}
    IN IF starts = {} THEN [found |-> FALSE, group |-> <<>>]
       ELSE LET i == CHOOSE k \in starts : \A l \in starts : k <= l
                j == CHOOSE k \in (i + 1)..Len(text) :
                        text[k] = "}" /\ \A l \in (k + 1)..Len(text) : text[l] # "}"
            IN [found |-> TRUE, group |-> SubSeq(text, i, j)]

\* json.loads reads the members of an object from left to right; a later
\* member replaces an earlier one with the same key
RECURSIVE LoadMembers(_, _)
LoadMembers(inner, data) ==
    IF inner = <<>> THEN [ok |-> TRUE, data |-> data]
    ELSE IF Head(inner) \notin Members THEN [ok |-> FALSE, data |-> data]
    ELSE LET d == [data EXCEPT ![MemberKey(Head(inner))] = MemberValue(Head(inner))]
             rest == Tail(inner)
         IN IF rest = <<>> THEN [ok |-> TRUE, data |-> d]
            ELSE IF Head(rest) # "," \/ Tail(rest) = <<>> THEN [ok |-> FALSE, data |-> d]
            ELSE LoadMembers(Tail(rest), d)

EmptyDict == [k \in {"response", "affection_change"} |-> Absent]

\* json.loads(json_text): ok is false when it raises
JsonLoads(json_text) ==
    IF Len(json_text) < 2 \/ Head(json_text) # "{" \/ json_text[Len(json_text)] # "}"
    THEN [ok |-> FALSE, data |-> EmptyDict]
    ELSE LoadMembers(SubSeq(json_text, 2, Len(json_text) - 1), EmptyDict)

\* data.get(key, default)
DictGet(data, key, default) == IF data[key] = Absent THEN default ELSE data[key]

\* int(): an int is kept, a float is cut towards zero, a str is read as a
\* decimal numeral, anything else raises
PyInt(v) ==
    CASE v.type = "int" -> [ok |-> TRUE, n |-> v.n]
      [] v.type = "float" ->
           [ok |-> TRUE, n |-> IF v.n >= 0 THEN v.n \div v.d ELSE -((-v.n) \div v.d)]
      [] v.type = "str" ->
           IF v.s = <<"150">> THEN [ok |-> TRUE, n |-> 150] ELSE [ok |-> FALSE, n |-> 0]
      [] OTHER -> [ok |-> FALSE, n |-> 0]

\* parse_gemini_response(text)
ParseGeminiResponse(text) ==
    LET match == ReSearch(text)
        fallback == Returned(PyStr(text), 0)
    IN IF ~match.found THEN fallback
       ELSE LET loaded == JsonLoads(match.group)
            IN IF ~loaded.ok THEN fallback
               ELSE LET response == DictGet(loaded.data, "response", DefaultResponse)
                        change == PyInt(DictGet(loaded.data, "affection_change", PyIntVal(0)))
                    IN IF ~change.ok THEN fallback
                       ELSE Returned(response, change.n)

\* ------------------------------------------------------------------ state
Init ==
    /\ rooms = NoRooms
    /\ now = 1
    /\ sessNick = [u \in Users |-> "Anonymous"]
    /\ req = [p \in Reqs |-> IdleReq]
    /\ started = 0
    /\ out = NoResponse
    /\ pb_messages = <<>>
    /\ pb_history = [built |-> FALSE, lines |-> <<>>]
    /\ pr_text = <<>>
    /\ pr_parsed = NotParsed

PromptVars == <<pb_messages, pb_history>>
ParserVars == <<pr_text, pr_parsed>>

\* the clock values that can be read once a write whose handler read
\* timestamp ts (or earlier ones) has been applied
ClockAfterWrite(ts) == {IF now > ts THEN now ELSE now + 1, now + 1}

\* the response goes out
SendResponse ==
    /\ ~Ready
    /\ out' = NoResponse
    /\ UNCHANGED <<rooms, now, sessNick, req, started, PromptVars, ParserVars>>

\* --------------------------------------------------------------- create_room
CreateNick(nickname) == IF nickname = "" THEN "Host" ELSE nickname

\* variant: the lookup is not consulted
CodeIsFreeAlways(doc) == TRUE

\* not room_ref.get().exists
CodeIsFree(doc) == ~doc.exists

\* one round of generate_room_code by the request with locals r: draw a code,
\* get its document, return the code if no room uses it, else go round again
DrawCode(p, r) ==
    \E c \in Codes :
       LET doc == rooms[c]
       IN req' = [req EXCEPT ![p] =
                     IF CodeIsFree(doc)
                     THEN [r EXCEPT !.code = c, !.snap = doc, !.pc = "set", !.ts = now]
                     ELSE [r EXCEPT !.code = c, !.snap = doc, !.pc = "gen"]]

\* POST /create arrives and draws its first code
CreateRequest(p, u, nickname) ==
    /\ Ready
    /\ Free(p)
    /\ started < MaxStarted
    /\ DrawCode(p, [IdleReq EXCEPT !.kind = "create", !.user = u,
                                   !.nick = CreateNick(nickname)])
    /\ started' = started + 1
    /\ UNCHANGED <<rooms, now, sessNick, out, PromptVars, ParserVars>>

\* the next round of the while loop of generate_room_code
GenerateRoomCode(p) ==
    /\ Ready
    /\ req[p].pc = "gen"
    /\ DrawCode(p, req[p])
    /\ UNCHANGED <<rooms, now, sessNick, started, out, PromptVars, ParserVars>>

\* db.collection('rooms').document(room_code).set(new_room_data)
CreateSet(p) ==
    /\ Ready
    /\ req[p].pc = "set"
    /\ now' \in ClockAfterWrite(req[p].ts)
    /\ rooms' = [rooms EXCEPT ![req[p].code] = NewRoom(req[p].user, req[p].nick, req[p].ts)]
    /\ sessNick' = [sessNick EXCEPT ![req[p].user] = req[p].nick]
    /\ req' = [req EXCEPT ![p] = IdleReq]
    /\ out' = Response("create", "redirect_room", TRUE, req[p], rooms)
    /\ UNCHANGED <<started, PromptVars, ParserVars>>

\* ----------------------------------------------------------------- join_room
JoinNick(nickname) == IF nickname = "" THEN "Guest" ELSE nickname

\* variant: a member is not recognised
JoinCheckNoMemberTest(doc, u) ==
    IF ~doc.exists THEN "home_not_found"
    ELSE IF doc.game_over THEN "home_game_ended"
    ELSE "update"

\* variant: the game_over check is missing
JoinCheckNoGameOver(doc, u) ==
    IF ~doc.exists THEN "home_not_found"
    ELSE IF doc.users[u].present THEN "redirect_room"
    ELSE "update"

\* the checks of join_room on the document it read
JoinCheck(doc, u) ==
    IF ~doc.exists THEN "home_not_found"
    ELSE IF doc.game_over THEN "home_game_ended"
    ELSE IF doc.users[u].present THEN "redirect_room"
    ELSE "update"

\* POST /join: room_ref.get() and the checks; a member is redirected at once
JoinRequest(p, u, c, nickname) ==
    /\ Ready
    /\ Free(p)
    /\ LET doc == rooms[c]
           r == [IdleReq EXCEPT !.kind = "join", !.pc = "update", !.user = u,
                                !.code = c, !.nick = JoinNick(nickname),
                                !.snap = doc, !.ts = now]
           check == JoinCheck(doc, u)
       IN \/ /\ check = "update"
             /\ started < MaxStarted
             /\ req' = [req EXCEPT ![p] = r]
             /\ started' = started + 1
             /\ UNCHANGED <<out, sessNick>>
          \/ /\ check # "update"
             /\ out' = Response("join", check, FALSE, r, rooms)
             /\ sessNick' = IF check = "redirect_room"
                            THEN [sessNick EXCEPT ![u] = r.nick]
                            ELSE sessNick
             /\ UNCHANGED <<req, started>>
    /\ UNCHANGED <<rooms, now, PromptVars, ParserVars>>

\* room_ref.update({users.<uid>: ..., messages: ArrayUnion([joined])})
JoinUpdate(p) ==
    /\ Ready
    /\ req[p].pc = "update"
    /\ now' \in ClockAfterWrite(req[p].ts)
    /\ rooms' = [rooms EXCEPT ![req[p].code] = JoinUpdateDoc(@, req[p])]
    /\ sessNick' = [sessNick EXCEPT ![req[p].user] = req[p].nick]
    /\ req' = [req EXCEPT ![p] = IdleReq]
    /\ out' = Response("join", "redirect_room", TRUE, req[p], rooms)
    /\ UNCHANGED <<started, PromptVars, ParserVars>>

\* ----------------------------------------------------------------- chat_room
\* variant: the game_over check is missing
PostCheckNoGameOver(doc, u, t) ==
    IF ~doc.exists THEN "home_not_found"
    ELSE IF ~doc.users[u].present THEN "home_not_member"
    ELSE IF t = "" THEN "400_empty_message"
    ELSE "call"

\* variant: an empty message is let through
PostCheckNoEmptyTest(doc, u, t) ==
    IF ~doc.exists THEN "home_not_found"
    ELSE IF ~doc.users[u].present THEN "home_not_member"
    ELSE IF doc.game_over THEN "400_game_over"
    ELSE "call"

\* the checks at the top of chat_room on the document it read
PostCheck(doc, u, t) ==
    IF ~doc.exists THEN "home_not_found"
    ELSE IF ~doc.users[u].present THEN "home_not_member"
    ELSE IF doc.game_over THEN "400_game_over"
    ELSE IF t = "" THEN "400_empty_message"
    ELSE "call"

\* POST /room/<room_code>: room_ref.get() and the checks; get_nickname()
\* reads the session
PostRequest(p, u, c, t) ==
    /\ Ready
    /\ Free(p)
    /\ LET doc == rooms[c]
           r == [IdleReq EXCEPT !.kind = "post", !.pc = "call", !.user = u,
                                !.code = c, !.text = t, !.nick = sessNick[u],
                                !.snap = doc, !.ts = now]
           check == PostCheck(doc, u, t)
       IN \/ /\ check = "call"
             /\ started < MaxStarted
             /\ req' = [req EXCEPT ![p] = r]
             /\ started' = started + 1
             /\ UNCHANGED out
          \/ /\ check # "call"
             /\ out' = Response("post", check, FALSE, r, rooms)
             /\ UNCHANGED <<req, started>>
    /\ UNCHANGED <<rooms, now, sessNick, PromptVars, ParserVars>>

\* build_gemini_prompt, model.generate_content, parse_gemini_response:
\* either a parsed reply or an exception
PostGemini(p) ==
    /\ Ready
    /\ req[p].pc = "call"
    /\ \/ /\ ~BuildPromptFails(req[p].snap)
          /\ \E reply \in Replies, d \in Deltas :
                req' = [req EXCEPT ![p].pc = "write", ![p].reply = reply,
                                   ![p].change = d, ![p].ts_end = now]
       \/ req' = [req EXCEPT ![p].pc = "write_error", ![p].ts_end = now]
    /\ UNCHANGED <<rooms, now, sessNick, started, out, PromptVars, ParserVars>>

\* room_ref.update(update_data) of the try branch
PostWrite(p) ==
    /\ Ready
    /\ req[p].pc = "write"
    /\ now' \in ClockAfterWrite(req[p].ts_end)
    /\ rooms' = [rooms EXCEPT ![req[p].code] = ChatUpdate(@, req[p])]
    /\ req' = [req EXCEPT ![p] = IdleReq]
    /\ out' = Response("post", "success", TRUE, req[p], rooms)
    /\ UNCHANGED <<sessNick, started, PromptVars, ParserVars>>

\* room_ref.update(...) of the except branch
PostWriteError(p) ==
    /\ Ready
    /\ req[p].pc = "write_error"
    /\ now' \in ClockAfterWrite(req[p].ts_end)
    /\ rooms' = [rooms EXCEPT ![req[p].code] = ErrorUpdate(@, req[p])]
    /\ req' = [req EXCEPT ![p] = IdleReq]
    /\ out' = Response("post", "500_error", TRUE, req[p], rooms)
    /\ UNCHANGED <<sessNick, started, PromptVars, ParserVars>>

\* ------------------------------------------------------------ specification
Next ==
    \/ SendResponse
    \/ \E p \in Reqs, u \in Users, n \in NickInputs : CreateRequest(p, u, n)
    \/ \E p \in Reqs : GenerateRoomCode(p)
    \/ \E p \in Reqs : CreateSet(p)
    \/ \E p \in Reqs, u \in Users, c \in Codes, n \in NickInputs : JoinRequest(p, u, c, n)
    \/ \E p \in Reqs : JoinUpdate(p)
    \/ \E p \in Reqs, u \in Users, c \in Codes, t \in Texts : PostRequest(p, u, c, t)
    \/ \E p \in Reqs : PostGemini(p)
    \/ \E p \in Reqs : PostWrite(p)
    \/ \E p \in Reqs : PostWriteError(p)

Spec == Init /\ [][Next]_vars

\* Scheduling: a response that is ready goes out, a handler that can take
\* its next step again and again takes it, and random.choices is fair: a
\* create that can again and again draw a free code does draw one.
Fairness ==
    /\ WF_vars(SendResponse)
    /\ \A p \in Reqs :
          /\ SF_vars(GenerateRoomCode(p))
          /\ SF_vars(GenerateRoomCode(p) /\ req'[p].pc = "set")
          /\ SF_vars(CreateSet(p))

SpecFair == Spec /\ Fairness

\* ------------------------------------------- prompt builder on stored lists
Stamps == 1..MaxStamp

\* a message with timestamp t is stored; its text is its place in the list
StoreMessage(t) ==
    /\ Len(pb_messages) < MaxStored
    /\ pb_messages' = Append(pb_messages,
                             Msg("System", <<"message", "", Len(pb_messages) + 1, 0>>, t))
    /\ pb_history' = [built |-> FALSE, lines |-> <<>>]
    /\ UNCHANGED <<rooms, now, sessNick, req, started, out, ParserVars>>

\* build_gemini_prompt selects the history section
BuildPrompt ==
    /\ ~pb_history.built
    /\ pb_history' = [built |-> TRUE, lines |-> RecentMessages(pb_messages)]
    /\ UNCHANGED <<rooms, now, sessNick, req, started, out, pb_messages, ParserVars>>

NextPrompt ==
    \/ \E t \in Stamps : StoreMessage(t)
    \/ BuildPrompt

SpecPrompt == Init /\ [][NextPrompt]_vars

\* ------------------------------------------------ parser on model texts
MainVars == <<rooms, now, sessNick, req, started, out>>

\* the model's text grows by one piece
ModelText(piece) ==
    /\ ~pr_parsed.done
    /\ Len(pr_text) < MaxText
    /\ pr_text' = Append(pr_text, piece)
    /\ UNCHANGED <<MainVars, PromptVars, pr_parsed>>

\* parse_gemini_response(response.text)
ParseResponse ==
    /\ ~pr_parsed.done
    /\ pr_parsed' = [done |-> TRUE, result |-> ParseGeminiResponse(pr_text)]
    /\ UNCHANGED <<MainVars, PromptVars, pr_text>>

NextParse ==
    \/ \E piece \in Pieces : ModelText(piece)
    \/ ParseResponse

SpecParse == Init /\ [][NextParse]_vars

\* ===================================================================
\* Properties
\* ===================================================================
Clamp(x) == IF x < 0 THEN 0 ELSE IF x > 100 THEN 100 ELSE x

\* the document the latest response is about, before and after the step
OutBefore == out.before[out.r.code]
OutAfter == rooms[out.r.code]
\* the handler of the latest response ran with no other write to its room
\* between its read and its write
OutClean == OutBefore = out.r.snap

\* C1: in every reachable state every user entry of every room has an
\* integer score between 0 and 100, whatever affection_change was parsed.
ScoreInRange ==
    \A c \in Codes, u \in Users :
        rooms[c].users[u].present =>
            /\ rooms[c].users[u].score \in Int
            /\ 0 <= rooms[c].users[u].score
            /\ rooms[c].users[u].score <= 100

\* a turn with a change beyond the range left the score at the ceiling
ScoreInRangeWitness ==
    /\ out.resp = "success"
    /\ out.r.snap.users[out.r.user].score + out.r.change > 100
    /\ out.r.snap.users[out.r.user].score > 0
    /\ OutClean
    /\ OutAfter.users[out.r.user].score = 100

\* C2: game_over is one-way: no step takes a stored room from
\* game_over = true to game_over = false.
GameOverOneWay ==
    [][\A c \in Codes :
          (rooms[c].exists /\ rooms[c].game_over)
              => (rooms'[c].exists /\ rooms'[c].game_over)]_vars

\* C3: a post that reads its room with game_over = true is rejected, the
\* generative-text service is not called for it and the store is unchanged.
PostAfterGameOverRejected ==
    (out.kind = "post" /\ out.r.snap.exists /\ out.r.snap.game_over) =>
        /\ out.resp \in {"400_game_over", "home_not_member"}
        /\ ~out.wrote
        /\ out.r.ts_end = 0
        /\ out.r.reply = "none"
        /\ rooms = out.before

\* a member's post to a finished game was answered 400 'Game is over'
PostAfterGameOverWitness ==
    /\ out.kind = "post"
    /\ out.resp = "400_game_over"
    /\ out.r.snap.game_over
    /\ out.r.text # ""

\* C4: once a room's game_over is true, no later post or join step changes
\* its users' scores or its message log (steps that keep game_over true, so
\* that the overwrite by a late create of C2 is left aside).
NoWriteAfterGameOver ==
    [][\A c \in Codes :
          (rooms[c].exists /\ rooms[c].game_over /\ rooms'[c].game_over)
              => /\ rooms'[c].users = rooms[c].users
                 /\ rooms'[c].messages = rooms[c].messages]_vars

\* C5: a successful turn with nothing interleaved sets the poster's score to
\* clamp(old + change), leaves the other entries alone, appends the user's
\* message, the bot's reply and one summary in that order, and sets game_over
\* and appends the win message exactly when the new score is >= 100.
SuccessfulTurn ==
    (out.kind = "post" /\ out.resp = "success" /\ OutClean) =>
        LET r == out.r
            old == OutBefore
            new == OutAfter
            n == Len(old.messages)
            score == Clamp(old.users[r.user].score + r.change)
            won == score >= 100
        IN /\ new.users[r.user].score = score
           /\ new.users[r.user].nickname = old.users[r.user].nickname
           /\ \A u \in Users \ {r.user} : new.users[u] = old.users[u]
           /\ Len(new.messages) = n + (IF won THEN 4 ELSE 3)
           /\ SubSeq(new.messages, 1, n) = old.messages
           /\ new.messages[n + 1] = Msg(r.user, UserText(r.text), r.ts)
           /\ new.messages[n + 2] = Msg(BotName, BotText(r.reply), r.ts_end)
           /\ new.messages[n + 3].user = "System"
           /\ new.messages[n + 3].text = ScoreText(r.nick, r.change, score)
           /\ won => new.messages[n + 4] = Msg("System", WinText(r.nick), r.ts_end)
           /\ new.game_over = won
           /\ ~old.game_over

\* a clean turn that took the score from below 100 to 100 and ended the game
SuccessfulTurnWitness ==
    /\ out.kind = "post"
    /\ out.resp = "success"
    /\ OutClean
    /\ OutAfter.game_over
    /\ Len(OutAfter.messages) = Len(OutBefore.messages) + 4

\* C6: a post whose generative-text call fails appends exactly two messages
\* (the user's text, then the apology), answers success = false and leaves
\* every score and game_over as they were.
ErrorTurnAppendsTwo ==
    (out.kind = "post" /\ out.resp = "500_error") =>
        LET r == out.r
        IN /\ OutAfter.messages =
                 OutBefore.messages \o << Msg(r.user, UserText(r.text), r.ts_end),
                                          Msg("System", SorryText(r.nick), r.ts_end) >>
           /\ OutAfter.users = OutBefore.users
           /\ OutAfter.game_over = OutBefore.game_over

\* C7: a join by an identifier that is already in the room's users mapping
\* leaves the store unchanged, whatever nickname it submits: the entry keeps
\* its nickname and score and no "joined" message is appended.
RejoinChangesNothing ==
    (out.kind = "join" /\ out.r.snap.exists /\ out.r.snap.users[out.r.user].present) =>
        /\ ~out.wrote
        /\ rooms = out.before
        /\ OutAfter.users[out.r.user] = out.r.snap.users[out.r.user]
        /\ OutAfter.messages = out.r.snap.messages

\* a member with a score rejoined under another nickname and was let in
RejoinWitness ==
    /\ out.kind = "join"
    /\ out.resp = "redirect_room"
    /\ out.r.snap.users[out.r.user].present
    /\ out.r.snap.users[out.r.user].score > 0
    /\ out.r.nick # out.r.snap.users[out.r.user].nickname
    /\ \E i \in 1..Len(OutAfter.messages) :
          OutAfter.messages[i].text = JoinedText(OutAfter.users[out.r.user].nickname)

\* C8: a join for a code with no room, or for a room that is over, is sent
\* home and changes nothing in the store.
FailedJoinChangesNothing ==
    (out.kind = "join" /\ (~out.r.snap.exists \/ out.r.snap.game_over)) =>
        /\ out.resp = (IF out.r.snap.exists THEN "home_game_ended" ELSE "home_not_found")
        /\ ~out.wrote
        /\ rooms = out.before

\* a newcomer tried to join a finished game while another code had no room
FailedJoinWitness ==
    /\ out.kind = "join"
    /\ out.resp = "home_game_ended"
    /\ ~out.r.snap.users[out.r.user].present
    /\ \E c \in Codes : ~rooms[c].exists

\* C9: generate_room_code returns a code only if its lookup found no room
\* with that code in the store, and goes round again when it found one.
GeneratorReturnsFreeCode ==
    [][\A p \in Reqs :
          /\ (req'[p].pc = "set" /\ req[p].pc # "set")
                => ~rooms[req'[p].code].exists
          /\ (req'[p].pc = "gen" /\ req'[p] # req[p])
                => rooms[req'[p].code].exists]_vars

\* one create is going round again on a used code while another create has
\* been handed a free one
GeneratorWitness ==
    \E p, q \in Reqs :
        /\ req[p].pc = "set"
        /\ req[q].pc = "gen"
        /\ rooms[req[q].code].exists
        /\ ~rooms[req[p].code].exists

\* C10: the history section holds the 10 messages with the latest timestamps
\* (all of them when fewer are stored), whatever the stored order, oldest
\* first.
InHistory(m) == \E i \in 1..Len(pb_history.lines) : pb_history.lines[i] = m

HistoryLatestTen ==
    pb_history.built =>
        LET h == pb_history.lines
        IN /\ Len(h) = Min(10, Len(pb_messages))
           /\ \A i \in 1..Len(h) : \E j \in 1..Len(pb_messages) : h[i] = pb_messages[j]
           /\ \A i, j \in 1..Len(h) : i < j =>
                 /\ h[i] # h[j]
                 /\ h[i].timestamp <= h[j].timestamp
           /\ \A j \in 1..Len(pb_messages) :
                 ~InHistory(pb_messages[j]) =>
                     \A i \in 1..Len(h) : pb_messages[j].timestamp <= h[i].timestamp

\* eleven stored messages, the oldest one stored last and left out
HistoryWitness ==
    /\ pb_history.built
    /\ Len(pb_messages) > 10
    /\ ~InHistory(pb_messages[Len(pb_messages)])
    /\ \E j \in 1..Len(pb_messages) :
          pb_messages[j].timestamp > pb_messages[Len(pb_messages)].timestamp

\* C11: for every model text parse_gemini_response returns without raising,
\* and what it returns has a string as response and an integer as
\* affection_change.
ParserWellFormed ==
    pr_parsed.done =>
        /\ ~pr_parsed.result.raised
        /\ pr_parsed.result.response.type = "str"
        /\ pr_parsed.result.affection_change \in Int

\* C12: with no block from the first '{' to the last '}', with a block that
\* is not a JSON object, or with an affection_change that int() refuses, the
\* parser returns the whole text and 0; otherwise it returns the block's
\* response (the fixed sentence if absent) and the coerced affection_change
\* (0 if absent).
FirstOpen(text) == CHOOSE i \in 1..Len(text) :
                      text[i] = "{" /\ \A k \in 1..(i - 1) : text[k] # "{"
LastClose(text) == CHOOSE j \in 1..Len(text) :
                      text[j] = "}" /\ \A k \in (j + 1)..Len(text) : text[k] # "}"
HasBlock(text) ==
    /\ \E i \in 1..Len(text) : text[i] = "{"
    /\ \E j \in 1..Len(text) : text[j] = "}"
    /\ FirstOpen(text) < LastClose(text)
BlockInner(text) == SubSeq(text, FirstOpen(text) + 1, LastClose(text) - 1)
IsObject(inner) ==
    \/ inner = <<>>
    \/ /\ Len(inner) % 2 = 1
       /\ \A k \in 1..Len(inner) :
             IF k % 2 = 1 THEN inner[k] \in Members ELSE inner[k] = ","
\* the last member of the object with a key, "none" if there is none
LastWith(inner, key) ==
    LET at == {k \in 1..Len(inner) : inner[k] \in Members /\ MemberKey(inner[k]) = key}
    IN IF at = {} THEN "none" ELSE inner[CHOOSE k \in at : \A l \in at : l <= k]
Coercible(m) == m \in {"none", "A_int", "A_float", "A_str"}
Coerced(m) == CASE m = "none" -> 0 [] m = "A_int" -> 50
                [] m = "A_float" -> -2 [] m = "A_str" -> 150

ParserFallback ==
    pr_parsed.done =>
        LET result == pr_parsed.result
            inner == BlockInner(pr_text)
            r == LastWith(inner, "response")
            a == LastWith(inner, "affection_change")
        IN IF ~HasBlock(pr_text) \/ ~IsObject(inner) \/ ~Coercible(a)
           THEN result = Returned(PyStr(pr_text), 0)
           ELSE /\ ~result.raised
                /\ result.response =
                      (IF r = "none" THEN PyStr(<<"I'm not sure what to say.">>)
                       ELSE MemberValue(r))
                /\ result.affection_change = Coerced(a)

\* a block with a response and a fractional change was parsed
ParserWitness ==
    /\ pr_parsed.done
    /\ HasBlock(pr_text)
    /\ pr_parsed.result.response = PyStr(<<"hi">>)
    /\ pr_parsed.result.affection_change = -2

\* C13: in every reachable state the message log of a room holds at most
\* one system message that declares a win.
IsWinMessage(m) == m.user = "System" /\ m.text[1] = WinText("")[1]

AtMostOneWinMessage ==
    \A c \in Codes :
        Cardinality({i \in 1..Len(rooms[c].messages) :
                        IsWinMessage(rooms[c].messages[i])}) <= 1

\* C14: in every reachable state of a room, game_over is true exactly when
\* some user's stored score is 100.
GameOverIffScore100 ==
    \A c \in Codes :
        rooms[c].exists =>
            (rooms[c].game_over <=>
                \E u \in Users : rooms[c].users[u].present /\ rooms[c].users[u].score = 100)

\* C15: when a post of a user writes after another post of the same user
\* that was written since it read the room, the stored score is
\* clamp(score it read + its own change) and the messages of both turns are
\* in the log: those of the first kept, those of the second all appended.
\* exactly one turn, of the poster of the latest response, was written to the
\* room between that post's read and its write
OverlappedTurn ==
    LET r == out.r
        n == Len(r.snap.messages)
        b == OutBefore
    IN /\ out.kind = "post"
       /\ out.resp = "success"
       /\ r.snap.exists
       /\ Len(b.messages) \in {n + 3, n + 4}
       /\ SubSeq(b.messages, 1, n) = r.snap.messages
       /\ b.messages[n + 1].user = r.user
       /\ b.messages[n + 2].user = BotName
       /\ b.messages[n + 3].user = "System"
       /\ Len(b.messages) = n + 4 => IsWinMessage(b.messages[n + 4])
       /\ \A u \in Users \ {r.user} : b.users[u] = r.snap.users[u]

LastWriteWins ==
    OverlappedTurn =>
        LET r == out.r
            score == Clamp(r.snap.users[r.user].score + r.change)
            turn == << Msg(r.user, UserText(r.text), r.ts),
                       Msg(BotName, BotText(r.reply), r.ts_end),
                       Msg("System", ScoreText(r.nick, r.change, score), r.ts_end) >>
            win == IF score >= 100
                   THEN << Msg("System", WinText(r.nick), r.ts_end) >> ELSE << >>
        IN /\ OutAfter.users[r.user].score = score
           /\ OutAfter.messages = OutBefore.messages \o turn \o win

\* C16: a user entry that is in a room's users mapping stays there with
\* its nickname, and its score changes only in the write of a post made by
\* that user (steps of join and post requests on a room that was not
\* replaced since they read it; the replacement of a whole room by a late
\* create of C2 is left aside).
IsPrefix(s, t) == Len(s) <= Len(t) /\ SubSeq(t, 1, Len(s)) = s

\* the stored room still has every message and every user of the document
NotReplaced(doc, stored) ==
    /\ IsPrefix(doc.messages, stored.messages)
    /\ \A u \in Users : doc.users[u].present => stored.users[u].present

UserEntryFrame ==
    [][\A c \in Codes, u \in Users :
          (/\ rooms[c].exists
           /\ rooms[c].users[u].present
           /\ out'.kind # "create"
           /\ out'.r.code = c => NotReplaced(out'.r.snap, rooms[c]))
              => /\ rooms'[c].users[u].present
                 /\ rooms'[c].users[u].nickname = rooms[c].users[u].nickname
                 /\ rooms'[c].users[u].score # rooms[c].users[u].score
                       => /\ out'.kind = "post"
                          /\ out'.r.user = u
                          /\ out'.r.code = c]_vars

\* C17: every write of a join or post request keeps the room's message log
\* as a prefix of the new log and lengthens it by all the entries of its
\* group: one for a join, three or four for a turn, two for a failed turn
\* (the replacement of a whole log by a late create of C2 is left aside).
GroupSize(o) ==
    CASE o.kind = "join" -> 1
      [] o.kind = "post" /\ o.resp = "500_error" -> 2
      [] o.kind = "post" /\ o.resp = "success" ->
           IF Clamp(o.r.snap.users[o.r.user].score + o.r.change) >= 100 THEN 4 ELSE 3
      [] OTHER -> 0

LogAppendOnly ==
    [][\A c \in Codes :
          (rooms[c].exists /\ out'.kind # "create")
              => /\ IsPrefix(rooms[c].messages, rooms'[c].messages)
                 /\ (out'.wrote /\ out'.r.code = c)
                       => Len(rooms'[c].messages) =
                             Len(rooms[c].messages) + GroupSize(out')]_vars

\* C18: every create request eventually completes: its check-and-retry loop
\* ends and its room is stored.
CreateCompletes ==
    \A p \in Reqs : (req[p].kind = "create") ~> (req[p].kind # "create")

\* C19: a post by an identifier that is not in the users mapping of its
\* room, or with an empty text, is rejected; the generative-text service is
\* not called for it and the store is unchanged.
RejectedPostNoEffect ==
    (/\ out.kind = "post"
     /\ out.r.snap.exists
     /\ ~out.r.snap.users[out.r.user].present \/ out.r.text = "") =>
        /\ out.resp = (IF ~out.r.snap.users[out.r.user].present THEN "home_not_member"
                       ELSE IF out.r.snap.game_over THEN "400_game_over"
                       ELSE "400_empty_message")
        /\ ~out.wrote
        /\ out.r.ts_end = 0
        /\ out.r.reply = "none"
        /\ rooms = out.before

\* a member's empty message to a running game with a score was answered
\* 400 'Empty message'
RejectedPostWitness ==
    /\ out.kind = "post"
    /\ out.resp = "400_empty_message"
    /\ out.r.text = ""
    /\ ~OutAfter.game_over
    /\ OutAfter.users[out.r.user].score > 0

====
